---- MODULE Spec2Model ----
(***************************************************************************)
(* Red-black tree of Driver/Source Files/tree.c, the RtlRbTree routines.   *)
(*                                                                         *)
(* Node memory is a heap of fixed-size blocks handed out by the lookaside  *)
(* pool; a pointer is a block number and NULL is 0.  The RB_TREE structure *)
(* is the record Tree, the node headers and their inline objects are mem.  *)
(* The algorithms are operators over a working copy h of the heap          *)
(* (root, node, fault); an action runs the whole routine on the working    *)
(* copy and stores the result.  h.fault records a dereference of NULL, or   *)
(* a fixup loop that has run more passes than the heap has blocks; h.steps  *)
(* counts the passes of the fixup loop.                                     *)
(* RtlRbTreeCreate leaves the root and active fields as the caller's      *)
(* memory held them; the runs start from NULL, from an address that is not *)
(* mapped and from the root of an old tree whose freed nodes are still     *)
(* mapped.  A read of memory that is not outstanding is undefined: where   *)
(* the memory is mapped the routine goes on over its bytes, where it is    *)
(* not the routine faults.                                                 *)
(***************************************************************************)
EXTENDS Integers, Sequences, FiniteSets

\* ---- bounds of the model ------------------------------------------------
MaxKey == 5
MaxBlocks == 5
MaxOps == 7
MaxScenarioCalls == 8
MaxSharedOps == 4

\* ---- program constants --------------------------------------------------
NULL == 0
red == 0
black == 1
RB_TREE_EQUAL == 0
RB_TREE_LESS_THAN == 1
RB_TREE_GREATER_THAN == 2

NoKey == NULL

\* What the root field can hold when RtlRbTreeCreate returns, besides NULL:
\* StaleRoot, an address that is not mapped, and OldRoot, the address of the
\* root of a tree the structure held before (RtlRbTreeDeleteTree freed its
\* nodes and left the field; the freed nodes still hold their bytes).  The
\* addresses of the old nodes are negative, the blocks of the pool positive.
StaleRoot == -1
OldRoot == -2
OldLeft == -3
OldRight == -4

\* Tree     the RB_TREE structure: root and the three counters
\* mem      the node blocks: header and inline object of every block
\* pool     the blocks allocated from the lookaside list and not yet freed
\* crashed  a routine dereferenced NULL or a stale address
\* stored   history: for every key the object returned by the insert that
\*          added it, NULL once it is deleted or before it is inserted
\* created_root  history: the root RtlRbTreeCreate returned the tree with
VARIABLES Tree, mem, pool, crashed, stored, created_root

\* lock             the routine holding Tree->lock, "none" when it is free
\* active           Tree->active
\* pool_deleted     ExDeleteLookasideListEx has run on Tree->pool
\* enum_thread      the thread inside RtlRbTreeEnumerate: its position, the
\*                  walk, and the history of its callbacks and lock calls
\* teardown_thread  the thread inside RtlRbTreeDeleteTree: its position, the
\*                  nodes it still frees, and the history of its frees
\* print_thread     the thread inside RtlRbTreeInOrderPrint: its position and
\*                  the nodes it printed in the call it is in
\* unlocked         history: the accesses to the tree's shared state that a
\*                  self-locking routine made without holding the lock
VARIABLES lock, active, pool_deleted, enum_thread, teardown_thread,
          print_thread, unlocked

\* calls  history of the scenario runs: the calls made, in order
VARIABLES calls

tree_vars == <<Tree, mem, pool, crashed, stored, created_root>>
thread_vars ==
    <<lock, active, pool_deleted, enum_thread, teardown_thread, print_thread,
      unlocked>>
vars == <<tree_vars, thread_vars, calls>>

\* The keys the callers use and the blocks the pool hands out.
Keys == DOMAIN stored
Blocks == {b \in DOMAIN mem : b > 0}

\* The state a routine runs on and leaves behind.
State == [Tree |-> Tree, mem |-> mem, pool |-> pool, crashed |-> crashed]

\* ---- node memory --------------------------------------------------------
\* An RB_TREE_NODE header with its inline object; the object is represented
\* by the key the comparator reads from it.
RB_TREE_NODE(p, l, r, c, o) ==
    [parent |-> p, left |-> l, right |-> r, colour |-> c, object |-> o]

\* Contents of a block that is not allocated (never read by the routines).
FreeBlock == RB_TREE_NODE(NULL, NULL, NULL, red, NoKey)

\* A UINT32 is carried as its two 16-bit halves, so that every value of the
\* type, 4294967295 included, is a value of the model: hi * 65536 + lo.
HalfWord == 65536
UINT32(n) == [hi |-> n \div HalfWord, lo |-> n % HalfWord]

\* The number a UINT32 holds, for the counters the guards keep small.
Value(x) == x.hi * HalfWord + x.lo

\* x holds at least the number n, n below 65536.
AtLeast(x, n) == x.hi > 0 \/ x.lo >= n

\* InterlockedIncrement and InterlockedDecrement on a UINT32: the counter
\* wraps at 2^32.
InterlockedIncrement(x) ==
    IF x.lo = HalfWord - 1
    THEN [hi |-> (x.hi + 1) % HalfWord, lo |-> 0]
    ELSE [x EXCEPT !.lo = @ + 1]
InterlockedDecrement(x) ==
    IF x.lo = 0
    THEN [hi |-> (x.hi - 1) % HalfWord, lo |-> HalfWord - 1]
    ELSE [x EXCEPT !.lo = @ - 1]

RtlpRbTreeIncrementInsertionCount(T) ==
    [T EXCEPT !.insertion_count = InterlockedIncrement(@)]
RtlpRbTreeIncrementDeletionCount(T) ==
    [T EXCEPT !.deletion_count = InterlockedIncrement(@)]
RtlpRbTreeIncrementNodeCount(T) ==
    [T EXCEPT !.node_count = InterlockedIncrement(@)]
\* Variant of RtlpRbTreeDecrementNodeCount that loses the decrement.
RtlpRbTreeDecrementNodeCountLost(T) == T

RtlpRbTreeDecrementNodeCount(T) ==
    [T EXCEPT !.node_count = InterlockedDecrement(@)]

\* The working copy of the heap a routine runs on, and the state it leaves.
Heap(S) == [root |-> S.Tree.root, node |-> S.mem, fault |-> FALSE, steps |-> 0]

Fault(h) == [h EXCEPT !.fault = TRUE]

\* p is neither NULL nor an address that is mapped: the routines test a
\* pointer against NULL only, so they follow p, and the access faults.  An
\* old node that is still mapped is read and written as any node.
Dangling(p) == p # NULL /\ p \notin DOMAIN mem

\* p->f, read.  The callers test p against NULL where the code does not.
Field(h, p, f) == IF p \in DOMAIN h.node THEN h.node[p][f] ELSE NULL

\* p->f = v.  A store through NULL faults.
SetField(h, p, f, v) ==
    IF h.fault THEN h
    ELSE IF p = NULL THEN Fault(h)
    ELSE [h EXCEPT !.node[p][f] = v]

SetRoot(h, v) == IF h.fault THEN h ELSE [h EXCEPT !.root = v]

\* The caller's comparison routine: keys are integers, the object holds
\* the key it was inserted under.
Compare(Key, Object) ==
    IF Key = Object THEN RB_TREE_EQUAL
    ELSE IF Key < Object THEN RB_TREE_LESS_THAN
    ELSE RB_TREE_GREATER_THAN

\* Local reads the routines repeat.
Parent(h, n) == Field(h, n, "parent")
Left(h, n) == Field(h, n, "left")
Right(h, n) == Field(h, n, "right")
Colour(h, n) == Field(h, n, "colour")

\* A loop state: the heap and the loop's Node variable.
LoopState(h, Node) == [heap |-> h, Node |-> Node]

\* One more pass of a fixup loop is entered.  A pass moves Node at least one
\* level up or ends the loop, so a loop that enters more passes than there
\* are blocks does not end; it is recorded as a routine that never returns.
LoopPass(st) ==
    IF st.heap.steps >= Cardinality(DOMAIN st.heap.node)
    THEN [st EXCEPT !.heap = Fault(st.heap)]
    ELSE [st EXCEPT !.heap.steps = @ + 1]

\* ---- rotations ----------------------------------------------------------
\* Node->right = right_child->left, and the moved child's parent.
RotateLeftMoveChild(h, Node, right_child) ==
    IF Left(h, right_child) # NULL
    THEN SetField(SetField(h, Node, "right", Left(h, right_child)),
                  Left(h, right_child), "parent", Node)
    ELSE SetField(h, Node, "right", NULL)

\* right_child takes Node's place below Node->parent (or as the root).
RotateLeftReplace(h, Node, right_child) ==
    IF Parent(h, Node) = NULL
    THEN SetRoot(SetField(h, right_child, "parent", NULL), right_child)
    ELSE IF Node = Left(h, Parent(h, Node))
    THEN SetField(SetField(h, right_child, "parent", Parent(h, Node)),
                  Parent(h, Node), "left", right_child)
    ELSE SetField(SetField(h, right_child, "parent", Parent(h, Node)),
                  Parent(h, Node), "right", right_child)

\* Variant of RotateLeftLink that leaves Node->parent as it was.
RotateLeftLinkKeepsParent(h, Node, right_child) ==
    SetField(h, right_child, "left", Node)

\* right_child->left = Node; Node->parent = right_child.
RotateLeftLink(h, Node, right_child) ==
    SetField(SetField(h, right_child, "left", Node), Node, "parent", right_child)

RtlpRbTreeRotateLeft(h, Node) ==
    IF h.fault THEN h
    ELSE IF Node = NULL THEN Fault(h)
    ELSE IF Right(h, Node) = NULL THEN Fault(h)
    ELSE RotateLeftLink(
             RotateLeftReplace(
                 RotateLeftMoveChild(h, Node, Right(h, Node)),
                 Node, Right(h, Node)),
             Node, Right(h, Node))

RotateRightMoveChild(h, Node, left_child) ==
    IF Right(h, left_child) # NULL
    THEN SetField(SetField(h, Node, "left", Right(h, left_child)),
                  Right(h, left_child), "parent", Node)
    ELSE SetField(h, Node, "left", NULL)

RotateRightReplace(h, Node, left_child) ==
    IF Parent(h, Node) = NULL
    THEN SetRoot(SetField(h, left_child, "parent", NULL), left_child)
    ELSE IF Node = Right(h, Parent(h, Node))
    THEN SetField(SetField(h, left_child, "parent", Parent(h, Node)),
                  Parent(h, Node), "right", left_child)
    ELSE SetField(SetField(h, left_child, "parent", Parent(h, Node)),
                  Parent(h, Node), "left", left_child)

RotateRightLink(h, Node, left_child) ==
    SetField(SetField(h, left_child, "right", Node), Node, "parent", left_child)

RtlpRbTreeRotateRight(h, Node) ==
    IF h.fault THEN h
    ELSE IF Node = NULL THEN Fault(h)
    ELSE IF Left(h, Node) = NULL THEN Fault(h)
    ELSE RotateRightLink(
             RotateRightReplace(
                 RotateRightMoveChild(h, Node, Left(h, Node)),
                 Node, Left(h, Node)),
             Node, Left(h, Node))

\* ---- insertion fixup ----------------------------------------------------
\* Variant of FixupInsertRecolour that leaves the uncle red.
FixupInsertRecolourNoUncle(h, parent, uncle, grandparent) ==
    LoopState(SetField(SetField(h, parent, "colour", black),
                       grandparent, "colour", red),
              grandparent)

\* The red-uncle case: parent and uncle black, grandparent red; the loop
\* goes on from the grandparent.
FixupInsertRecolour(h, parent, uncle, grandparent) ==
    LoopState(SetField(SetField(SetField(h, parent, "colour", black),
                                uncle, "colour", black),
                       grandparent, "colour", red),
              grandparent)

\* Variant of FixupInsertRotateRight that rotates without recolouring.
FixupInsertRotateRightNoRecolour(h, Node, grandparent) ==
    LoopState(RtlpRbTreeRotateRight(h, grandparent), Node)

\* The black-uncle case once Node is the outer child, parent a left child:
\* parent black, grandparent red, grandparent rotated right.
FixupInsertRotateRight(h, Node, grandparent) ==
    LoopState(RtlpRbTreeRotateRight(
                  SetField(SetField(h, Parent(h, Node), "colour", black),
                           grandparent, "colour", red),
                  grandparent),
              Node)

\* Variant of FixupInsertRotateLeft that rotates without recolouring.
FixupInsertRotateLeftNoRecolour(h, Node, grandparent) ==
    LoopState(RtlpRbTreeRotateLeft(h, grandparent), Node)

FixupInsertRotateLeft(h, Node, grandparent) ==
    LoopState(RtlpRbTreeRotateLeft(
                  SetField(SetField(h, Parent(h, Node), "colour", black),
                           grandparent, "colour", red),
                  grandparent),
              Node)

\* The loop body for parent == grandparent->left.
FixupInsertLeft(h, Node, parent, grandparent) ==
    IF Right(h, grandparent) # NULL /\ Colour(h, Right(h, grandparent)) = red
    THEN FixupInsertRecolour(h, parent, Right(h, grandparent), grandparent)
    ELSE IF Node = Right(h, parent)
    THEN FixupInsertRotateRight(RtlpRbTreeRotateLeft(h, parent), parent, grandparent)
    ELSE FixupInsertRotateRight(h, Node, grandparent)

\* The loop body for parent == grandparent->right.
FixupInsertRight(h, Node, parent, grandparent) ==
    IF Left(h, grandparent) # NULL /\ Colour(h, Left(h, grandparent)) = red
    THEN FixupInsertRecolour(h, parent, Left(h, grandparent), grandparent)
    ELSE IF Node = Left(h, parent)
    THEN FixupInsertRotateLeft(RtlpRbTreeRotateRight(h, parent), parent, grandparent)
    ELSE FixupInsertRotateLeft(h, Node, grandparent)

\* One pass of the loop body; grandparent is dereferenced unchecked.
FixupInsertBody(h, Node, parent) ==
    IF Parent(h, parent) = NULL THEN LoopState(Fault(h), Node)
    ELSE IF parent = Left(h, Parent(h, parent))
    THEN FixupInsertLeft(h, Node, parent, Parent(h, parent))
    ELSE FixupInsertRight(h, Node, parent, Parent(h, parent))

\* The loop, then Tree->root->colour = black.
RECURSIVE FixupInsertLoop(_)
FixupInsertLoop(st) ==
    IF st.heap.fault THEN st.heap
    ELSE IF Parent(st.heap, st.Node) # NULL
            /\ Colour(st.heap, Parent(st.heap, st.Node)) = red
    THEN FixupInsertLoop(
             LoopPass(FixupInsertBody(st.heap, st.Node,
                                      Parent(st.heap, st.Node))))
    ELSE SetField(st.heap, st.heap.root, "colour", black)

RtlpRbTreeFixupInsert(h, Node) == FixupInsertLoop(LoopState(h, Node))

\* ---- insert -------------------------------------------------------------
\* The descent of RtlRbTreeInsertNode: the node holding an equal key in
\* current (NULL when there is none), the last node visited in parent and
\* the last comparison in result.
RECURSIVE InsertDescend(_, _, _, _, _)
InsertDescend(h, Key, current, parent, result) ==
    IF current = NULL
    THEN [current |-> NULL, parent |-> parent, result |-> result]
    ELSE IF Compare(Key, Field(h, current, "object")) = RB_TREE_LESS_THAN
    THEN InsertDescend(h, Key, Left(h, current), current, RB_TREE_LESS_THAN)
    ELSE IF Compare(Key, Field(h, current, "object")) = RB_TREE_GREATER_THAN
    THEN InsertDescend(h, Key, Right(h, current), current, RB_TREE_GREATER_THAN)
    ELSE [current |-> current, parent |-> current, result |-> RB_TREE_EQUAL]

\* The block as RtlRbTreeInsertNode initialises it after the allocation.
InsertInitNode(h, node) ==
    [h EXCEPT !.node[node] =
        RB_TREE_NODE(NULL, NULL, NULL, red, h.node[node].object)]

\* Variant of InsertLink that hangs the node on the other side.
InsertLinkWrongSide(h, node, parent, result) ==
    RtlpRbTreeFixupInsert(
        IF parent = NULL THEN SetRoot(SetField(h, node, "parent", parent), node)
        ELSE IF result = RB_TREE_LESS_THAN
        THEN SetField(SetField(h, node, "parent", parent), parent, "right", node)
        ELSE SetField(SetField(h, node, "parent", parent), parent, "left", node),
        node)

\* Linking of the new node below parent, and the fixup.
InsertLink(h, node, parent, result) ==
    RtlpRbTreeFixupInsert(
        IF parent = NULL THEN SetRoot(SetField(h, node, "parent", parent), node)
        ELSE IF result = RB_TREE_LESS_THAN
        THEN SetField(SetField(h, node, "parent", parent), parent, "left", node)
        ELSE SetField(SetField(h, node, "parent", parent), parent, "right", node),
        node)

\* The caller fills the object it was handed with the record of the key.
CallerStoreKey(h, node, Key) == SetField(h, node, "object", Key)

\* What ExAllocateFromLookasideListEx can return: NULL when the pool cannot
\* supply a block (always possible: the system pool is shared), or a block
\* that is not outstanding.  The routines use a block address only to
\* follow it and to compare it for equality, so the free blocks are
\* interchangeable and the lowest-numbered one stands for all of them.
ExAllocateFromLookasideListEx(S) ==
    {NULL} \cup {b \in Blocks \ S.pool : \A c \in Blocks \ S.pool : b <= c}

\* What a call leaves: the state, the value returned and the return
\* statement taken.
Result(S, ret, path) == [S |-> S, ret |-> ret, path |-> path]

\* The state once the routine has worked on the heap h.
Leave(T, h, blocks) ==
    [Tree |-> [T EXCEPT !.root = h.root], mem |-> h.node,
     pool |-> blocks, crashed |-> h.fault]

\* The tail of RtlRbTreeInsertNode for a key that was not found.
InsertNew(S, h, node, Key) ==
    Result(Leave(RtlpRbTreeIncrementNodeCount(
                     RtlpRbTreeIncrementInsertionCount(S.Tree)),
                 CallerStoreKey(h, node, Key),
                 S.pool \cup {node}),
           node, "new")

\* RtlRbTreeInsertNode from the descent on; d is what the descent found.
InsertAfterDescend(S, h0, Key, node, d) ==
    IF d.current # NULL
    THEN Result(S, d.current, "exists")
    ELSE InsertNew(S, InsertLink(h0, node, d.parent, d.result), node, Key)

\* RtlRbTreeInsertNode from the allocation on.
InsertAllocated(S, h0, Key, node) ==
    IF Dangling(h0.root)
    THEN Result(Leave(S.Tree, Fault(h0), S.pool \cup {node}), NULL, "fault")
    ELSE InsertAfterDescend(S, h0, Key, node,
                            InsertDescend(h0, Key, h0.root, NULL, 0))

\* Variant of RtlRbTreeInsertNode that counts the insertion before it tests
\* the allocation.
RtlRbTreeInsertNodeCountsFirst(S, Key, node) ==
    IF node = NULL
    THEN Result([S EXCEPT !.Tree = RtlpRbTreeIncrementInsertionCount(S.Tree)],
                NULL, "nomem")
    ELSE InsertAllocated(S, InsertInitNode(Heap(S), node), Key, node)

\* RtlRbTreeInsertNode(Tree, Key) with node the outcome of the allocation.
RtlRbTreeInsertNode(S, Key, node) ==
    IF node = NULL
    THEN Result(S, NULL, "nomem")
    ELSE InsertAllocated(S, InsertInitNode(Heap(S), node), Key, node)

\* ---- delete -------------------------------------------------------------
\* Variant of RtlpRbTreeMinimum that does not descend.
RtlpRbTreeMinimumNoDescent(h, Node) == Node

RECURSIVE RtlpRbTreeMinimum(_, _)
RtlpRbTreeMinimum(h, Node) ==
    IF Left(h, Node) # NULL THEN RtlpRbTreeMinimum(h, Left(h, Node)) ELSE Node

\* !p || p->colour == black
AbsentOrBlack(h, p) == p = NULL \/ Colour(h, p) = black

\* Node a left child.  Red sibling: recolour, rotate the parent left.
FixupDeleteLeftRedSibling(h, Node, sibling) ==
    IF sibling # NULL /\ Colour(h, sibling) = red
    THEN RtlpRbTreeRotateLeft(
             SetField(SetField(h, sibling, "colour", black),
                      Parent(h, Node), "colour", red),
             Parent(h, Node))
    ELSE h

\* Sibling without a red right child: make its right child the red one.
FixupDeleteLeftNear(h, Node, sibling) ==
    IF sibling # NULL /\ AbsentOrBlack(h, Right(h, sibling))
    THEN RtlpRbTreeRotateRight(
             SetField(IF Left(h, sibling) # NULL
                      THEN SetField(h, Left(h, sibling), "colour", black)
                      ELSE h,
                      sibling, "colour", red),
             sibling)
    ELSE h

\* Sibling takes the parent's colour, parent and far child black, rotate.
FixupDeleteLeftFar(h, Node, sibling) ==
    IF sibling # NULL
    THEN RtlpRbTreeRotateLeft(
             IF Right(h, sibling) # NULL
             THEN SetField(SetField(SetField(h, sibling, "colour",
                                             Colour(h, Parent(h, Node))),
                                    Parent(h, Node), "colour", black),
                           Right(h, sibling), "colour", black)
             ELSE SetField(SetField(h, sibling, "colour",
                                    Colour(h, Parent(h, Node))),
                           Parent(h, Node), "colour", black),
             Parent(h, Node))
    ELSE h

\* Node = Tree->root ends the loop.
FixupDeleteToRoot(h) == LoopState(h, h.root)

FixupDeleteLeftRotate(h, Node) ==
    FixupDeleteToRoot(FixupDeleteLeftFar(h, Node, Right(h, Parent(h, Node))))

\* After the red-sibling step: recolour and move up, or rotate and stop.
FixupDeleteLeftBlackSibling(h, Node, sibling) ==
    IF sibling # NULL /\ AbsentOrBlack(h, Left(h, sibling))
                      /\ AbsentOrBlack(h, Right(h, sibling))
    THEN LoopState(SetField(h, sibling, "colour", red), Parent(h, Node))
    ELSE FixupDeleteLeftRotate(FixupDeleteLeftNear(h, Node, sibling), Node)

FixupDeleteLeftAfterRed(h, Node) ==
    FixupDeleteLeftBlackSibling(h, Node, Right(h, Parent(h, Node)))

FixupDeleteLeft(h, Node) ==
    FixupDeleteLeftAfterRed(
        FixupDeleteLeftRedSibling(h, Node, Right(h, Parent(h, Node))), Node)

\* The mirror image, for Node a right child.
FixupDeleteRightRedSibling(h, Node, sibling) ==
    IF sibling # NULL /\ Colour(h, sibling) = red
    THEN RtlpRbTreeRotateRight(
             SetField(SetField(h, sibling, "colour", black),
                      Parent(h, Node), "colour", red),
             Parent(h, Node))
    ELSE h

FixupDeleteRightNear(h, Node, sibling) ==
    IF sibling # NULL /\ AbsentOrBlack(h, Left(h, sibling))
    THEN RtlpRbTreeRotateLeft(
             SetField(IF Right(h, sibling) # NULL
                      THEN SetField(h, Right(h, sibling), "colour", black)
                      ELSE h,
                      sibling, "colour", red),
             sibling)
    ELSE h

FixupDeleteRightFar(h, Node, sibling) ==
    IF sibling # NULL
    THEN RtlpRbTreeRotateRight(
             IF Left(h, sibling) # NULL
             THEN SetField(SetField(SetField(h, sibling, "colour",
                                             Colour(h, Parent(h, Node))),
                                    Parent(h, Node), "colour", black),
                           Left(h, sibling), "colour", black)
             ELSE SetField(SetField(h, sibling, "colour",
                                    Colour(h, Parent(h, Node))),
                           Parent(h, Node), "colour", black),
             Parent(h, Node))
    ELSE h

FixupDeleteRightRotate(h, Node) ==
    FixupDeleteToRoot(FixupDeleteRightFar(h, Node, Left(h, Parent(h, Node))))

FixupDeleteRightBlackSibling(h, Node, sibling) ==
    IF sibling # NULL /\ AbsentOrBlack(h, Right(h, sibling))
                      /\ AbsentOrBlack(h, Left(h, sibling))
    THEN LoopState(SetField(h, sibling, "colour", red), Parent(h, Node))
    ELSE FixupDeleteRightRotate(FixupDeleteRightNear(h, Node, sibling), Node)

FixupDeleteRightAfterRed(h, Node) ==
    FixupDeleteRightBlackSibling(h, Node, Left(h, Parent(h, Node)))

FixupDeleteRight(h, Node) ==
    FixupDeleteRightAfterRed(
        FixupDeleteRightRedSibling(h, Node, Left(h, Parent(h, Node))), Node)

\* The loop, then Node->colour = black.
RECURSIVE FixupDeleteLoop(_)
FixupDeleteLoop(st) ==
    IF st.heap.fault THEN st.heap
    ELSE IF st.Node = NULL THEN Fault(st.heap)
    ELSE IF st.Node # st.heap.root /\ Colour(st.heap, st.Node) = black
    THEN IF Parent(st.heap, st.Node) = NULL THEN Fault(st.heap)
         ELSE IF st.Node = Left(st.heap, Parent(st.heap, st.Node))
         THEN FixupDeleteLoop(LoopPass(FixupDeleteLeft(st.heap, st.Node)))
         ELSE FixupDeleteLoop(LoopPass(FixupDeleteRight(st.heap, st.Node)))
    ELSE SetField(st.heap, st.Node, "colour", black)

RtlpRbTreeFixupDelete(h, Node) == FixupDeleteLoop(LoopState(h, Node))

\* Variant of RtlpRbTreeTransplant that leaves Tree->root alone.
RtlpRbTreeTransplantKeepsRoot(h, Target, Replacement) ==
    IF Replacement # NULL
    THEN SetField(
             IF Parent(h, Target) = NULL THEN h
             ELSE IF Target = Left(h, Parent(h, Target))
             THEN SetField(h, Parent(h, Target), "left", Replacement)
             ELSE SetField(h, Parent(h, Target), "right", Replacement),
             Replacement, "parent", Parent(h, Target))
    ELSE IF Parent(h, Target) = NULL THEN h
    ELSE IF Target = Left(h, Parent(h, Target))
    THEN SetField(h, Parent(h, Target), "left", Replacement)
    ELSE SetField(h, Parent(h, Target), "right", Replacement)

RtlpRbTreeTransplant(h, Target, Replacement) ==
    IF Replacement # NULL
    THEN SetField(
             IF Parent(h, Target) = NULL THEN SetRoot(h, Replacement)
             ELSE IF Target = Left(h, Parent(h, Target))
             THEN SetField(h, Parent(h, Target), "left", Replacement)
             ELSE SetField(h, Parent(h, Target), "right", Replacement),
             Replacement, "parent", Parent(h, Target))
    ELSE IF Parent(h, Target) = NULL THEN SetRoot(h, Replacement)
    ELSE IF Target = Left(h, Parent(h, Target))
    THEN SetField(h, Parent(h, Target), "left", Replacement)
    ELSE SetField(h, Parent(h, Target), "right", Replacement)

\* Variant of FindNodeLoop that returns the last node visited for a key that
\* is not in the tree.
RECURSIVE FindNodeLoopLastVisited(_, _, _)
FindNodeLoopLastVisited(h, Key, current) ==
    IF current = NULL THEN NULL
    ELSE IF Compare(Key, Field(h, current, "object")) = RB_TREE_EQUAL
    THEN current
    ELSE IF Compare(Key, Field(h, current, "object")) = RB_TREE_LESS_THAN
    THEN IF Left(h, current) = NULL THEN current
         ELSE FindNodeLoopLastVisited(h, Key, Left(h, current))
    ELSE IF Right(h, current) = NULL THEN current
         ELSE FindNodeLoopLastVisited(h, Key, Right(h, current))

RECURSIVE FindNodeLoop(_, _, _)
FindNodeLoop(h, Key, current) ==
    IF current = NULL THEN NULL
    ELSE IF Compare(Key, Field(h, current, "object")) = RB_TREE_EQUAL
    THEN current
    ELSE IF Compare(Key, Field(h, current, "object")) = RB_TREE_LESS_THAN
    THEN FindNodeLoop(h, Key, Left(h, current))
    ELSE FindNodeLoop(h, Key, Right(h, current))

RtlpRbTreeFindNode(h, Key) == FindNodeLoop(h, Key, h.root)

\* What the unlinking leaves: the heap, the colour of the node that was
\* excised and the child that took its place.
Unlinked(h, colour, child) == [heap |-> h, colour |-> colour, child |-> child]

\* successor->right = target->right; successor->right->parent = successor.
DeleteAdoptRight(h, target, successor) ==
    SetField(SetField(h, successor, "right", Right(h, target)),
             Right(h, target), "parent", successor)

\* The successor is detached from its place unless it is target's child.
DeleteDetachSuccessor(h, target, successor) ==
    IF Parent(h, successor) = target
    THEN IF Right(h, successor) # NULL
         THEN SetField(h, Right(h, successor), "parent", successor)
         ELSE h
    ELSE DeleteAdoptRight(
             RtlpRbTreeTransplant(h, successor, Right(h, successor)),
             target, successor)

\* Variant of DeleteAdoptLeft that leaves target's left subtree behind.
DeleteAdoptLeftForgotten(h, target, successor) ==
    SetField(h, successor, "colour", Colour(h, target))

\* successor->left = target->left; its parent; successor takes the colour.
DeleteAdoptLeft(h, target, successor) ==
    SetField(SetField(SetField(h, successor, "left", Left(h, target)),
                      Left(h, target), "parent", successor),
             successor, "colour", Colour(h, target))

\* The two-children case: the successor takes target's place.
DeleteBySuccessor(h, target, successor) ==
    Unlinked(DeleteAdoptLeft(
                 RtlpRbTreeTransplant(
                     DeleteDetachSuccessor(h, target, successor),
                     target, successor),
                 target, successor),
             Colour(h, successor),
             Right(h, successor))

DeleteUnlink(h, target) ==
    IF Left(h, target) = NULL
    THEN Unlinked(RtlpRbTreeTransplant(h, target, Right(h, target)),
                  Colour(h, target), Right(h, target))
    ELSE IF Right(h, target) = NULL
    THEN Unlinked(RtlpRbTreeTransplant(h, target, Left(h, target)),
                  Colour(h, target), Left(h, target))
    ELSE DeleteBySuccessor(h, target, RtlpRbTreeMinimum(h, Right(h, target)))

\* Variant of DeleteNeedsFixup that does not test the child.
DeleteNeedsFixupAbsentChild(colour, child) == colour = black

\* The fixup runs only for a black excised node with a child in its place.
DeleteNeedsFixup(colour, child) == colour = black /\ child # NULL

DeleteFixup(u) ==
    IF DeleteNeedsFixup(u.colour, u.child)
    THEN RtlpRbTreeFixupDelete(u.heap, u.child)
    ELSE u.heap

\* ExFreeToLookasideListEx: the block leaves the tree's memory.
FreeNode(h, node) == IF h.fault THEN h ELSE [h EXCEPT !.node[node] = FreeBlock]

\* RtlRbTreeDeleteNode once target is found.
DeleteTarget(S, target) ==
    Leave(RtlpRbTreeDecrementNodeCount(
              RtlpRbTreeIncrementDeletionCount(S.Tree)),
          FreeNode(DeleteFixup(DeleteUnlink(Heap(S), target)), target),
          S.pool \ {target})

\* RtlRbTreeDeleteNode(Tree, Key): the state after the call.
RtlRbTreeDeleteNode(S, Key) ==
    IF Dangling(S.Tree.root)
    THEN [S EXCEPT !.crashed = TRUE]
    ELSE IF RtlpRbTreeFindNode(Heap(S), Key) = NULL
    THEN S
    ELSE DeleteTarget(S, RtlpRbTreeFindNode(Heap(S), Key))

\* ---- find ---------------------------------------------------------------
\* RtlRbTreeFindNodeObject(Tree, Key): the object found, or NULL.  The object
\* is inline in the node, so its address is the node's block.
RECURSIVE FindNodeObjectLoop(_, _, _)
FindNodeObjectLoop(h, Key, current) ==
    IF current = NULL THEN NULL
    ELSE IF Compare(Key, Field(h, current, "object")) = RB_TREE_EQUAL
    THEN current
    ELSE IF Compare(Key, Field(h, current, "object")) = RB_TREE_LESS_THAN
    THEN FindNodeObjectLoop(h, Key, Left(h, current))
    ELSE FindNodeObjectLoop(h, Key, Right(h, current))

RtlRbTreeFindNodeObject(S, Key) == FindNodeObjectLoop(Heap(S), Key, S.Tree.root)

\* ---- enumerate ----------------------------------------------------------
\* Variant of RtlpRbTreeEnumerate that calls back before the left subtree.
RECURSIVE RtlpRbTreeEnumeratePreOrder(_, _)
RtlpRbTreeEnumeratePreOrder(h, Node) ==
    IF Node = NULL THEN <<>>
    ELSE <<Node>>
         \o RtlpRbTreeEnumeratePreOrder(h, Left(h, Node))
         \o RtlpRbTreeEnumeratePreOrder(h, Right(h, Node))

\* The objects handed to the callback, in the order of the calls.
RECURSIVE RtlpRbTreeEnumerate(_, _)
RtlpRbTreeEnumerate(h, Node) ==
    IF Node = NULL THEN <<>>
    ELSE RtlpRbTreeEnumerate(h, Left(h, Node))
         \o <<Node>>
         \o RtlpRbTreeEnumerate(h, Right(h, Node))

\* RtlRbTreeEnumerate(Tree, Callback, Context) when no other thread runs
\* between its test of the root and its release of the lock: the sequence
\* of callback calls.  It writes nothing to the tree.
RtlRbTreeEnumerate(S) ==
    IF S.Tree.root = NULL THEN <<>>
    ELSE RtlpRbTreeEnumerate(Heap(S), S.Tree.root)

\* ---- the calls ------------------------------------------------------------
\* A call replaces the state by the one the routine leaves.  The caller of
\* Find, Insert and Delete holds the lock, so a call is one step.
SetState(S) ==
    /\ Tree' = S.Tree
    /\ mem' = S.mem
    /\ pool' = S.pool
    /\ crashed' = S.crashed

\* History kept beside the tree: what the inserts handed out.
StoreRecord(Key, object) ==
    IF stored[Key] = NULL /\ object # NULL
    THEN [stored EXCEPT ![Key] = object]
    ELSE stored

InsertApply(Key, r) ==
    /\ ~crashed
    /\ r.path = "new" => Value(Tree.insertion_count) < MaxOps
    /\ SetState(r.S)
    /\ stored' = StoreRecord(Key, r.ret)
    /\ UNCHANGED <<created_root, thread_vars, calls>>

Insert(Key, node) == InsertApply(Key, RtlRbTreeInsertNode(State, Key, node))

Delete(Key) ==
    /\ ~crashed
    /\ SetState(RtlRbTreeDeleteNode(State, Key))
    /\ stored' = [stored EXCEPT ![Key] = NULL]
    /\ UNCHANGED <<created_root, thread_vars, calls>>

Find(Key) ==
    /\ ~crashed
    /\ RtlRbTreeFindNodeObject(State, Key) \in DOMAIN mem \cup {NULL}
    /\ crashed' = Dangling(Tree.root)
    /\ UNCHANGED <<Tree, mem, pool, stored, created_root, thread_vars, calls>>

\* ---- initial state: after a successful RtlRbTreeCreate -------------------
\* What the caller-allocated RB_TREE can hold before the call: root zeroed,
\* an unmapped address or the root of an old tree, the counters anything.
PriorTrees ==
    [root : {NULL, StaleRoot, OldRoot}, node_count : {UINT32(n) : n \in 0..MaxOps},
     insertion_count : {UINT32(n) : n \in 0..MaxOps},
     deletion_count : {UINT32(n) : n \in 0..MaxOps}]

\* RtlRbTreeCreate(Compare, ObjectSize, Tree), the successful return: the
\* pool is initialised and the three counters are zeroed; root is not
\* assigned.
RtlRbTreeCreate(T) ==
    [T EXCEPT !.deletion_count = UINT32(0), !.insertion_count = UINT32(0),
              !.node_count = UINT32(0)]

\* The nodes of the tree an RB_TREE held before, as RtlRbTreeDeleteTree
\* left them: one node of key 2, or a black 2 over a red 1 and a red 3.
OldTreeOne == [n \in {OldRoot} |-> RB_TREE_NODE(NULL, NULL, NULL, black, 2)]
OldTreeThree ==
    [n \in {OldRoot, OldLeft, OldRight} |->
        IF n = OldRoot THEN RB_TREE_NODE(NULL, OldLeft, OldRight, black, 2)
        ELSE IF n = OldLeft THEN RB_TREE_NODE(OldRoot, NULL, NULL, red, 1)
        ELSE RB_TREE_NODE(OldRoot, NULL, NULL, red, 3)]

\* The old nodes that are mapped when the root field holds root.
PriorMemory(root) ==
    IF root = OldRoot THEN {OldTreeOne, OldTreeThree} ELSE {<<>>}

\* What Tree->active can hold when RtlRbTreeCreate returns: the field is not
\* assigned, zero and a non-zero value stand for the contents of the
\* caller's memory.
PriorActive == {0, 1}

\* The pool of a tree just created: no block is outstanding.  old are the
\* old nodes that are mapped.
InitPool(blocks, keys, old) ==
    /\ mem = [b \in blocks \cup DOMAIN old |->
                 IF b \in DOMAIN old THEN old[b] ELSE FreeBlock]
    /\ pool = {}
    /\ crashed = FALSE
    /\ stored = [k \in keys |-> NULL]

\* KeInitializeGuardedMutex, and no thread inside a self-locking routine.
InitThreads(prior_active) ==
    /\ lock = "none"
    /\ active = prior_active
    /\ pool_deleted = FALSE
    /\ enum_thread = [pc |-> "idle", cur |-> NULL, stack |-> <<>>,
                      visited |-> <<>>, acquired |-> 0, released |-> 0,
                      root_seen |-> NULL, freed_seen |-> FALSE]
    /\ teardown_thread = [pc |-> "idle", todo |-> <<>>, freed |-> <<>>,
                          freed_not_outstanding |-> FALSE,
                          freed_linked |-> FALSE]
    /\ print_thread = [pc |-> "idle", printed |-> <<>>]
    /\ unlocked = {}

Init ==
    /\ \E prior \in PriorTrees : Tree = RtlRbTreeCreate(prior)
    /\ \E old \in PriorMemory(Tree.root) :
           InitPool(1..MaxBlocks, 1..MaxKey, old)
    /\ created_root = Tree.root
    /\ \E prior_active \in PriorActive : InitThreads(prior_active)
    /\ calls = <<>>

Next ==
    \/ \E Key \in Keys : \E node \in ExAllocateFromLookasideListEx(State) :
           Insert(Key, node)
    \/ \E Key \in Keys : Delete(Key)
    \/ \E Key \in Keys : Find(Key)

Spec == Init /\ [][Next]_vars

\* ---- threads --------------------------------------------------------------
\* One thread calls Insert and Delete with the lock held around each call,
\* one thread is inside RtlRbTreeEnumerate and one inside
\* RtlRbTreeDeleteTree; the two self-locking routines advance one access to
\* the shared state at a time.  The handle is not used once
\* RtlRbTreeDeleteTree has returned.
TreeInUse == ~crashed /\ teardown_thread.pc # "returned"

\* The caller's KeAcquireGuardedMutex, the call, KeReleaseGuardedMutex.
LockedInsert(Key, node) ==
    /\ TreeInUse /\ lock = "none" /\ ~pool_deleted
    /\ Value(Tree.insertion_count) + Value(Tree.deletion_count) < MaxSharedOps
    /\ SetState(RtlRbTreeInsertNode(State, Key, node).S)
    /\ stored' = StoreRecord(Key, RtlRbTreeInsertNode(State, Key, node).ret)
    /\ UNCHANGED <<created_root, thread_vars, calls>>

LockedDelete(Key) ==
    /\ TreeInUse /\ lock = "none" /\ ~pool_deleted
    /\ Value(Tree.insertion_count) + Value(Tree.deletion_count) < MaxSharedOps
    /\ SetState(RtlRbTreeDeleteNode(State, Key))
    /\ stored' = [stored EXCEPT ![Key] = NULL]
    /\ UNCHANGED <<created_root, thread_vars, calls>>

\* Variant of RtlRbTreeAcquireLock that returns without taking the mutex.
RtlRbTreeAcquireLockNotTaken(routine) == lock

\* RtlRbTreeAcquireLock(Tree) by a routine that found the mutex free, and
\* RtlRbTreeReleaselock(Tree): the holder of the mutex afterwards.
RtlRbTreeAcquireLock(routine) == routine
RtlRbTreeReleaselock == "none"

\* An access of a self-locking routine to the shared state: it is recorded
\* when the routine does not hold the lock.
Access(routine, what) ==
    IF lock = routine THEN unlocked ELSE unlocked \cup {<<routine, what>>}

\* Variant of EnumerateAfterCheck that takes the lock on an empty tree too.
EnumerateAfterCheckAlwaysLocks(root) == "acquire"

\* if (Tree->root == NULL) return;
EnumerateAfterCheck(root) == IF root = NULL THEN "returned" ELSE "acquire"

EnumerateCheckRoot ==
    /\ TreeInUse /\ enum_thread.pc = "idle"
    /\ enum_thread' = [enum_thread EXCEPT !.pc = EnumerateAfterCheck(Tree.root),
                                          !.root_seen = Tree.root]
    /\ unlocked' = Access("Enumerate", "root")
    /\ UNCHANGED <<tree_vars, lock, active, pool_deleted, teardown_thread,
                   print_thread, calls>>

\* RtlRbTreeAcquireLock(Tree), and the read of Tree->root for the walk.
EnumerateAcquireLock ==
    /\ ~crashed /\ enum_thread.pc = "acquire" /\ lock = "none"
    /\ lock' = RtlRbTreeAcquireLock("Enumerate")
    /\ enum_thread' = [enum_thread EXCEPT !.pc = "walk", !.cur = Tree.root,
                                          !.stack = <<>>, !.acquired = @ + 1]
    /\ UNCHANGED <<tree_vars, active, pool_deleted, teardown_thread,
                   print_thread, unlocked, calls>>

\* Variant of EnumerateDescend that does not go down the left links.
EnumerateDescendNoLeft(h, cur, stack) ==
    IF cur = NULL \/ cur \notin DOMAIN h.node THEN stack
    ELSE <<cur>> \o stack

\* The recursion of RtlpRbTreeEnumerate down the left links from cur: the
\* nodes entered and not yet called back, the innermost first.
RECURSIVE EnumerateDescend(_, _, _)
EnumerateDescend(h, cur, stack) ==
    IF cur = NULL \/ cur \notin DOMAIN h.node THEN stack
    ELSE EnumerateDescend(h, Left(h, cur), <<cur>> \o stack)

\* A walk reads a block that is not outstanding: a freed block of the pool,
\* an old node, or an address that is not mapped.
ReadsFreed(cur, entered) ==
    \/ Dangling(cur)
    \/ pool_deleted
    \/ \E i \in 1..Len(entered) : entered[i] \notin pool

\* Up to and with the next Callback(Node->object, Context).  A read of a
\* block that is not outstanding is undefined: it faults, or, when the block
\* is mapped and still holds its bytes, the walk goes on over it.
EnumerateWalk(entered) ==
    \/ /\ ReadsFreed(enum_thread.cur, entered)
       /\ enum_thread' = [enum_thread EXCEPT !.freed_seen = TRUE]
       /\ crashed' = TRUE
    \/ /\ ~Dangling(enum_thread.cur) /\ entered # <<>>
       /\ enum_thread' = [enum_thread EXCEPT
                             !.visited = Append(@, Head(entered)),
                             !.cur = Right(Heap(State), Head(entered)),
                             !.stack = Tail(entered),
                             !.freed_seen =
                                 @ \/ ReadsFreed(enum_thread.cur, entered)]
       /\ crashed' = crashed

EnumerateCallback ==
    /\ ~crashed /\ enum_thread.pc = "walk"
    /\ enum_thread.cur # NULL \/ enum_thread.stack # <<>>
    /\ EnumerateWalk(EnumerateDescend(Heap(State), enum_thread.cur,
                                      enum_thread.stack))
    /\ unlocked' = Access("Enumerate", "nodes")
    /\ UNCHANGED <<Tree, mem, pool, stored, created_root, lock, active,
                   pool_deleted, teardown_thread, print_thread, calls>>

\* RtlRbTreeReleaselock(Tree) once the walk has returned.
EnumerateReleaseLock ==
    /\ ~crashed /\ enum_thread.pc = "walk"
    /\ enum_thread.cur = NULL /\ enum_thread.stack = <<>>
    /\ lock' = RtlRbTreeReleaselock
    /\ enum_thread' = [enum_thread EXCEPT !.pc = "returned", !.released = @ + 1]
    /\ UNCHANGED <<tree_vars, active, pool_deleted, teardown_thread,
                   print_thread, unlocked, calls>>

\* Tree->active = FALSE;
DeleteTreeMarkInactive ==
    /\ ~crashed /\ teardown_thread.pc = "idle"
    /\ active' = 0
    /\ teardown_thread' = [teardown_thread EXCEPT !.pc = "acquire"]
    /\ unlocked' = Access("DeleteTree", "active")
    /\ UNCHANGED <<tree_vars, lock, pool_deleted, enum_thread, print_thread,
                   calls>>

\* Variant of RtlpRbTreeDeleteSubtree that leaves the right subtrees.
RECURSIVE RtlpRbTreeDeleteSubtreeLeftOnly(_, _)
RtlpRbTreeDeleteSubtreeLeftOnly(h, Node) ==
    IF Node = NULL THEN <<>>
    ELSE RtlpRbTreeDeleteSubtreeLeftOnly(h, Left(h, Node)) \o <<Node>>

\* RtlpRbTreeDeleteSubtree(Tree, Node): the blocks it frees, in order.
RECURSIVE RtlpRbTreeDeleteSubtree(_, _)
RtlpRbTreeDeleteSubtree(h, Node) ==
    IF Node = NULL THEN <<>>
    ELSE RtlpRbTreeDeleteSubtree(h, Left(h, Node))
         \o RtlpRbTreeDeleteSubtree(h, Right(h, Node))
         \o <<Node>>

\* RtlRbTreeAcquireLock(Tree), and the entry of RtlpRbTreeDeleteSubtree on
\* Tree->root.  A root that is not mapped faults; the old nodes below a root
\* that is mapped are walked and freed as the nodes of the tree are.
DeleteTreeAcquireLock ==
    /\ ~crashed /\ teardown_thread.pc = "acquire" /\ lock = "none"
    /\ lock' = RtlRbTreeAcquireLock("DeleteTree")
    /\ crashed' = Dangling(Tree.root)
    /\ teardown_thread' =
           [teardown_thread EXCEPT
               !.pc = "free",
               !.todo = IF Dangling(Tree.root) THEN <<>>
                        ELSE RtlpRbTreeDeleteSubtree(Heap(State), Tree.root)]
    /\ UNCHANGED <<Tree, mem, pool, stored, created_root, active, pool_deleted,
                   enum_thread, print_thread, unlocked, calls>>

\* The nodes reachable from the root of the state S.
RECURSIVE LinkedFrom(_, _)
LinkedFrom(S, n) ==
    IF n = NULL \/ n \notin DOMAIN S.mem THEN {}
    ELSE {n} \cup LinkedFrom(S, S.mem[n].left) \cup LinkedFrom(S, S.mem[n].right)

\* ExFreeToLookasideListEx(&Tree->pool, Node) of the next node.
DeleteTreeFree ==
    /\ ~crashed /\ teardown_thread.pc = "free" /\ teardown_thread.todo # <<>>
    /\ pool' = pool \ {Head(teardown_thread.todo)}
    /\ teardown_thread' =
           [teardown_thread EXCEPT
               !.todo = Tail(@),
               !.freed = Append(@, Head(teardown_thread.todo)),
               !.freed_not_outstanding =
                   @ \/ Head(teardown_thread.todo) \notin pool,
               !.freed_linked = @ \/ Head(teardown_thread.todo)
                                         \in LinkedFrom(State, Tree.root)]
    /\ unlocked' = Access("DeleteTree", "pool")
    /\ UNCHANGED <<Tree, mem, crashed, stored, created_root, lock, active,
                   pool_deleted, enum_thread, print_thread, calls>>

\* ExDeleteLookasideListEx(&Tree->pool);
DeleteTreeDeletePool ==
    /\ ~crashed /\ teardown_thread.pc = "free" /\ teardown_thread.todo = <<>>
    /\ pool_deleted' = TRUE
    /\ teardown_thread' = [teardown_thread EXCEPT !.pc = "release"]
    /\ unlocked' = Access("DeleteTree", "pool")
    /\ UNCHANGED <<tree_vars, lock, active, enum_thread, print_thread, calls>>

\* RtlRbTreeReleaselock(Tree);
DeleteTreeReleaseLock ==
    /\ ~crashed /\ teardown_thread.pc = "release"
    /\ lock' = RtlRbTreeReleaselock
    /\ teardown_thread' = [teardown_thread EXCEPT !.pc = "returned"]
    /\ UNCHANGED <<tree_vars, active, pool_deleted, enum_thread, print_thread,
                   unlocked, calls>>

\* RtlRbTreeInOrderPrint(Tree) is entered: the thread waits for the mutex.
InOrderPrintCall ==
    /\ TreeInUse /\ print_thread.pc = "idle"
    /\ print_thread' = [pc |-> "acquire", printed |-> <<>>]
    /\ UNCHANGED <<tree_vars, lock, active, pool_deleted, enum_thread,
                   teardown_thread, unlocked, calls>>

\* RtlRbTreeAcquireLock(Tree); there is no test of the root before it.
InOrderPrintAcquireLock ==
    /\ ~crashed /\ print_thread.pc = "acquire" /\ lock = "none"
    /\ lock' = RtlRbTreeAcquireLock("InOrderPrint")
    /\ print_thread' = [print_thread EXCEPT !.pc = "walk"]
    /\ UNCHANGED <<tree_vars, active, pool_deleted, enum_thread,
                   teardown_thread, unlocked, calls>>

\* RtlpPrintInOrder(Node): the nodes it prints, in order.
RECURSIVE RtlpPrintInOrder(_, _)
RtlpPrintInOrder(h, Node) ==
    IF Node = NULL \/ Node \notin DOMAIN h.node THEN <<>>
    ELSE RtlpPrintInOrder(h, Left(h, Node))
         \o <<Node>>
         \o RtlpPrintInOrder(h, Right(h, Node))

\* RtlpPrintInOrder(Tree->root) with the mutex held.  As in the walk of
\* Enumerate, a read of a block that is not outstanding faults or goes on
\* over the bytes the block still holds.
InOrderPrintWalk ==
    /\ ~crashed /\ print_thread.pc = "walk"
    /\ \/ /\ ReadsFreed(Tree.root, RtlpPrintInOrder(Heap(State), Tree.root))
          /\ crashed' = TRUE
          /\ UNCHANGED print_thread
       \/ /\ ~Dangling(Tree.root)
          /\ crashed' = crashed
          /\ print_thread' =
                 [pc |-> "release",
                  printed |-> RtlpPrintInOrder(Heap(State), Tree.root)]
    /\ UNCHANGED <<Tree, mem, pool, stored, created_root, lock, active,
                   pool_deleted, enum_thread, teardown_thread, unlocked, calls>>

\* RtlRbTreeReleaselock(Tree); the call returns and its output is gone.
InOrderPrintReleaseLock ==
    /\ ~crashed /\ print_thread.pc = "release"
    /\ lock' = RtlRbTreeReleaselock
    /\ print_thread' = [pc |-> "idle", printed |-> <<>>]
    /\ UNCHANGED <<tree_vars, active, pool_deleted, enum_thread,
                   teardown_thread, unlocked, calls>>

NextThreads ==
    \/ \E Key \in Keys : \E node \in ExAllocateFromLookasideListEx(State) :
           LockedInsert(Key, node)
    \/ \E Key \in Keys : LockedDelete(Key)
    \/ EnumerateCheckRoot
    \/ EnumerateAcquireLock
    \/ EnumerateCallback
    \/ EnumerateReleaseLock
    \/ DeleteTreeMarkInactive
    \/ DeleteTreeAcquireLock
    \/ DeleteTreeFree
    \/ DeleteTreeDeletePool
    \/ DeleteTreeReleaseLock
    \/ InOrderPrintCall
    \/ InOrderPrintAcquireLock
    \/ InOrderPrintWalk
    \/ InOrderPrintReleaseLock

SpecThreads == Init /\ [][NextThreads]_vars

\* ---- scenario runs -------------------------------------------------------
\* The runs of the test scenarios: distinct keys are inserted one at a time
\* into an empty tree, the pool supplying every block, and then one key is
\* deleted.  calls records the calls in order.
ScenarioKeys == {10, 20, 30, 40, 50, 60, 70, 80}

InsertCall(Key) == <<"Insert", Key>>
DeleteCall(Key) == <<"Delete", Key>>

NoDeleteCalled == \A i \in 1..Len(calls) : calls[i][1] = "Insert"

ScenarioInsert(Key) ==
    /\ Len(calls) < MaxScenarioCalls - 1
    /\ NoDeleteCalled
    /\ stored[Key] = NULL
    /\ \E node \in ExAllocateFromLookasideListEx(State) \ {NULL} :
           /\ SetState(RtlRbTreeInsertNode(State, Key, node).S)
           /\ stored' = StoreRecord(Key, RtlRbTreeInsertNode(State, Key, node).ret)
    /\ calls' = Append(calls, InsertCall(Key))
    /\ UNCHANGED <<created_root, thread_vars>>

ScenarioDelete(Key) ==
    /\ Len(calls) < MaxScenarioCalls
    /\ NoDeleteCalled
    /\ stored[Key] # NULL
    /\ SetState(RtlRbTreeDeleteNode(State, Key))
    /\ stored' = [stored EXCEPT ![Key] = NULL]
    /\ calls' = Append(calls, DeleteCall(Key))
    /\ UNCHANGED <<created_root, thread_vars>>

InitScenario ==
    /\ \E prior \in PriorTrees :
           prior.root = NULL /\ Tree = RtlRbTreeCreate(prior)
    /\ InitPool(1..MaxScenarioCalls, ScenarioKeys, <<>>)
    /\ created_root = Tree.root
    /\ InitThreads(0)
    /\ calls = <<>>

NextScenario ==
    \/ \E Key \in Keys : ScenarioInsert(Key)
    \/ \E Key \in Keys : ScenarioDelete(Key)

SpecScenario == InitScenario /\ [][NextScenario]_vars

\* ---- properties -----------------------------------------------------------
\* The nodes reachable from n over the owning links, and their in-order
\* sequence (left subtree, node, right subtree).
RECURSIVE ReachableFrom(_)
ReachableFrom(n) ==
    IF n = NULL THEN {}
    ELSE IF Dangling(n) THEN {n}
    ELSE {n} \cup ReachableFrom(mem[n].left) \cup ReachableFrom(mem[n].right)

RECURSIVE InOrderFrom(_)
InOrderFrom(n) ==
    IF n = NULL THEN <<>>
    ELSE IF Dangling(n) THEN <<n>>
    ELSE InOrderFrom(mem[n].left) \o <<n>> \o InOrderFrom(mem[n].right)

KeysAscend(seq) ==
    \A i \in 1..(Len(seq) - 1) : mem[seq[i]].object < mem[seq[i + 1]].object

\* The number of black nodes on every path from n down to an absent child,
\* -1 when two such paths differ.
BlackHeightJoin(l, r, c) ==
    IF l = -1 \/ r = -1 \/ l # r THEN -1
    ELSE IF c = black THEN l + 1 ELSE l

RECURSIVE BlackHeight(_)
BlackHeight(n) ==
    IF n = NULL THEN 0
    ELSE BlackHeightJoin(BlackHeight(mem[n].left), BlackHeight(mem[n].right),
                         mem[n].colour)

BlackHeightUniform == BlackHeight(Tree.root) # -1

IsRed(n) == n # NULL /\ mem[n].colour = red

\* The keys that were inserted and not deleted since.
Members == {k \in Keys : stored[k] # NULL}

\* The calls started from an empty tree.
FromEmptyTree == created_root = NULL

\* C1: starting from an empty tree, after every completed Insert or Delete
\* the in-order traversal of the nodes reachable from root yields strictly
\* ascending keys.
InOrderAscending == FromEmptyTree => KeysAscend(InOrderFrom(Tree.root))

InOrderAscendingWitness ==
    /\ AtLeast(Tree.deletion_count, 1)
    /\ Len(InOrderFrom(Tree.root)) >= 4

\* C2: starting from an empty tree, the tree is a set of keys: Find returns
\* the object the insert of k handed out exactly when k was inserted and not
\* deleted since, and NULL otherwise.
FindMatchesHistory ==
    FromEmptyTree =>
        \A k \in Keys : RtlRbTreeFindNodeObject(State, k) = stored[k]

FindMatchesHistoryWitness ==
    /\ AtLeast(Tree.deletion_count, 2)
    /\ Cardinality(Members) >= 3
    /\ \E k \in Keys : stored[k] = NULL /\ RtlRbTreeFindNodeObject(State, k) = NULL

\* C3: starting from an empty tree, after every completed Insert or Delete
\* the root is black when the tree is not empty, and no red node has a red
\* parent.
RootBlackNoRedRed ==
    FromEmptyTree =>
        /\ Tree.root # NULL => mem[Tree.root].colour = black
        /\ \A n \in ReachableFrom(Tree.root) :
               IsRed(n) => ~IsRed(mem[n].left) /\ ~IsRed(mem[n].right)

\* A tree a Delete left with unequal black heights, holding a red node.
RootBlackNoRedRedWitness ==
    /\ AtLeast(Tree.deletion_count, 1)
    /\ ~BlackHeightUniform
    /\ \E n \in ReachableFrom(Tree.root) : IsRed(n)

\* C4: while only Inserts have completed on an initially empty tree, every
\* path from a node down to an absent child holds the same number of black
\* nodes.
InsertOnlyBlackHeightUniform ==
    FromEmptyTree /\ Tree.deletion_count = UINT32(0) => BlackHeightUniform

InsertOnlyBlackHeightWitness ==
    /\ Tree.deletion_count = UINT32(0)
    /\ Tree.insertion_count = UINT32(MaxKey)
    /\ BlackHeight(Tree.root) >= 2

\* C5: the black height is uniform in every state reached by Inserts and
\* Deletes from an empty tree.
BlackHeightInvariant == FromEmptyTree => BlackHeightUniform

\* node_count equals the number of nodes reachable from root, which is the
\* number of entries the in-order traversal visits.
NodeCountIsReachable ==
    /\ Tree.node_count = UINT32(Cardinality(ReachableFrom(Tree.root)))
    /\ Tree.node_count = UINT32(Len(InOrderFrom(Tree.root)))

\* C6: after a successful Create and after every completed Insert or Delete,
\* node_count equals the number of nodes reachable from root, which is the
\* number of entries the in-order traversal visits.
NodeCountMatches == NodeCountIsReachable

\* The same from the trees Create returned with an empty root: the counting
\* of Insert and Delete keeps node_count equal to the reachable nodes.
NodeCountMatchesFromEmptyTree == FromEmptyTree => NodeCountIsReachable

NodeCountMatchesWitness ==
    /\ AtLeast(Tree.deletion_count, 2)
    /\ AtLeast(Tree.node_count, 3)
    /\ Tree.insertion_count # Tree.node_count

\* What C7 asks of the result r of an Insert of a key that is present.
SameObjectNoChange(k, r) == r.ret = stored[k] /\ r.S = State

\* C7: an Insert of a key that is present returns the object the first Insert
\* of it returned and leaves the counters, the shape and the colours alone.
DuplicateInsertIdempotent ==
    FromEmptyTree =>
    \A k \in Members : \A node \in ExAllocateFromLookasideListEx(State) :
        SameObjectNoChange(k, RtlRbTreeInsertNode(State, k, node))

\* What C8 asks of the result r of an Insert the pool gave no block.
EmptyResultNoChange(r) == r.ret = NULL /\ r.S = State

\* C8: when the pool cannot supply a block, Insert returns NULL and leaves
\* root, links, colours and the three counters as they were.
AllocationFailureNoChange ==
    \A k \in Keys : EmptyResultNoChange(RtlRbTreeInsertNode(State, k, NULL))

\* The pool is exhausted: every block is in the tree.
AllocationFailureWitness ==
    /\ ExAllocateFromLookasideListEx(State) = {NULL}
    /\ Tree.node_count = UINT32(MaxBlocks)
    /\ \E k \in Keys : RtlRbTreeInsertNode(State, k, NULL).path = "nomem"

\* C9: a Delete of a key that is not in the tree changes no link, colour,
\* counter or outstanding block.
DeleteAbsentNoChange ==
    FromEmptyTree =>
        \A k \in Keys \ Members : RtlRbTreeDeleteNode(State, k) = State

DeleteAbsentWitness ==
    /\ AtLeast(Tree.deletion_count, 1)
    /\ AtLeast(Tree.node_count, 3)
    /\ \E k \in Keys \ Members : RtlRbTreeDeleteNode(State, k) = State

\* What C10 asks of the sequence v of objects handed to the callback.
VisitsEachOnceAscending(v) ==
    /\ UINT32(Len(v)) = Tree.node_count
    /\ \A i, j \in 1..Len(v) : i # j => v[i] # v[j]
    /\ {v[i] : i \in 1..Len(v)} = {stored[k] : k \in Members}
    /\ \A i, j \in 1..Len(v) : \A k1, k2 \in Members :
           stored[k1] = v[i] /\ stored[k2] = v[j] /\ i < j => k1 < k2

\* The walk of the Enumerate call has ended and the lock is still held.
EnumerateWalkEnded ==
    /\ enum_thread.pc = "walk"
    /\ enum_thread.cur = NULL /\ enum_thread.stack = <<>>

\* C10: on every tree reached by Inserts and Deletes from an empty tree,
\* Enumerate calls back node_count times, once for each stored entry, in
\* strictly ascending key order: the callbacks of a call whose walk has ended
\* are those of the recursion on the tree as it is.
EnumerateVisitsAll ==
    FromEmptyTree /\ EnumerateWalkEnded /\ ~pool_deleted =>
        /\ VisitsEachOnceAscending(enum_thread.visited)
        /\ enum_thread.visited = RtlRbTreeEnumerate(State)

\* A call has walked a tree of three levels.
EnumerateVisitsAllWitness ==
    /\ FromEmptyTree /\ EnumerateWalkEnded /\ ~pool_deleted
    /\ Len(enum_thread.visited) >= 4
    /\ AtLeast(Tree.node_count, 4)

\* C12: once every key inserted into an empty tree has been deleted again,
\* in whatever orders, node_count is 0, root is empty, Enumerate visits no
\* entry and every block allocated is back in the pool.
RoundTripLeavesEmpty ==
    FromEmptyTree /\ Members = {} =>
        /\ Tree.node_count = UINT32(0)
        /\ Tree.root = NULL
        /\ RtlRbTreeEnumerate(State) = <<>>
        /\ pool = {}

\* All the keys were inserted and all were deleted.
RoundTripLeavesEmptyWitness ==
    /\ FromEmptyTree /\ Members = {}
    /\ Tree.insertion_count = UINT32(Cardinality(Keys))
    /\ Tree.deletion_count = UINT32(Cardinality(Keys))
    /\ Tree.root = NULL /\ pool = {}

\* The shape below n: key, colour, left shape, right shape; <<>> for an
\* absent node.
RECURSIVE Shape(_)
Shape(n) ==
    IF n = NULL THEN <<>>
    ELSE <<mem[n].object, mem[n].colour, Shape(mem[n].left), Shape(mem[n].right)>>

Leaf(key, colour) == <<key, colour, <<>>, <<>>>>

ScenarioACalls == <<InsertCall(10), InsertCall(20), InsertCall(30)>>

\* C13 as stated: after inserting 10, 20, 30 into an empty tree the root is
\* 20 and black, its left child is 10 and black, its right child is 30 and
\* black.
ScenarioAAllBlack ==
    calls = ScenarioACalls =>
        Shape(Tree.root) = <<20, black, Leaf(10, black), Leaf(30, black)>>

\* C13: after inserting 10, 20, 30 into an empty tree the root is 20 and
\* black, its left child is 10 and red, its right child is 30 and red.
ScenarioARedChildren ==
    calls = ScenarioACalls =>
        Shape(Tree.root) = <<20, black, Leaf(10, red), Leaf(30, red)>>

ScenarioARedChildrenWitness ==
    /\ calls = ScenarioACalls
    /\ Tree.node_count = UINT32(3)
    /\ mem[Tree.root].object = 20

ScenarioBCalls ==
    <<InsertCall(50), InsertCall(30), InsertCall(70), InsertCall(20),
      InsertCall(40), InsertCall(60), InsertCall(80), DeleteCall(50)>>

\* C14: after inserting 50, 30, 70, 20, 40, 60, 80 and deleting 50 the root
\* holds 60, the in-order keys are 20, 30, 40, 60, 70, 80, the root is
\* black, no red node has a red child and the black height is uniform.
ScenarioBSuccessorRoot ==
    calls = ScenarioBCalls =>
        /\ Tree.root # NULL /\ mem[Tree.root].object = 60
        /\ [i \in 1..Len(InOrderFrom(Tree.root)) |->
                mem[InOrderFrom(Tree.root)[i]].object] = <<20, 30, 40, 60, 70, 80>>
        /\ mem[Tree.root].colour = black
        /\ \A n \in ReachableFrom(Tree.root) :
               IsRed(n) => ~IsRed(mem[n].left) /\ ~IsRed(mem[n].right)
        /\ BlackHeightUniform

ScenarioBSuccessorRootWitness ==
    /\ calls = ScenarioBCalls
    /\ Tree.node_count = UINT32(6)
    /\ Tree.deletion_count = UINT32(1)
    /\ stored[50] = NULL

\* C15: a successful Create leaves the root empty and node_count, the
\* insertion counter and the deletion counter zero, whatever the caller's
\* structure held before.
CreateLeavesEmptyTree ==
    /\ created_root = NULL
    /\ \A prior \in PriorTrees :
           /\ RtlRbTreeCreate(prior).node_count = UINT32(0)
           /\ RtlRbTreeCreate(prior).insertion_count = UINT32(0)
           /\ RtlRbTreeCreate(prior).deletion_count = UINT32(0)

\* Sum and difference of two UINT32, modulo 2^32.
Plus32(x, y) ==
    [hi |-> (x.hi + y.hi + (x.lo + y.lo) \div HalfWord) % HalfWord,
     lo |-> (x.lo + y.lo) % HalfWord]
Minus32(x, y) ==
    [hi |-> (x.hi - y.hi - (IF x.lo < y.lo THEN 1 ELSE 0)) % HalfWord,
     lo |-> (x.lo - y.lo) % HalfWord]

\* The three counters of T, and what an added or a removed key makes them.
Counters(T) == <<T.insertion_count, T.deletion_count, T.node_count>>
CountersAdded(T) ==
    <<Plus32(T.insertion_count, UINT32(1)), T.deletion_count,
      Plus32(T.node_count, UINT32(1))>>
CountersRemoved(T) ==
    <<T.insertion_count, Plus32(T.deletion_count, UINT32(1)),
      Minus32(T.node_count, UINT32(1))>>

\* The keys of the nodes reachable from the root.
TreeKeys == {mem[n].object : n \in LinkedFrom(State, Tree.root)}

\* A step that adds a key counts one insertion and one node more, a step
\* that removes a key one deletion more and one node less, and every other
\* step (Find, Enumerate, duplicate or failed Insert, Delete of an absent
\* key) leaves the three counters alone.
CounterStep ==
    IF TreeKeys' = TreeKeys
    THEN Counters(Tree') = Counters(Tree)
    ELSE IF \E k \in Keys : k \notin TreeKeys /\ k \in TreeKeys'
    THEN Counters(Tree') = CountersAdded(Tree)
    ELSE Counters(Tree') = CountersRemoved(Tree)

\* C19: every call changes the counters as CounterStep says, and in every
\* state after Create node_count is the insertion counter less the deletion
\* counter.
CounterDiscipline ==
    /\ [](Tree.node_count = Minus32(Tree.insertion_count, Tree.deletion_count))
    /\ [][CounterStep]_vars

CounterDisciplineWitness ==
    /\ AtLeast(Tree.insertion_count, 4)
    /\ AtLeast(Tree.deletion_count, 2)
    /\ AtLeast(Tree.node_count, 1)
    /\ Tree.node_count = Minus32(Tree.insertion_count, Tree.deletion_count)
    /\ ExAllocateFromLookasideListEx(State) = {NULL}

\* The passes the deletion fixup loop makes in a Delete of k.
DeleteFixupPassesOf(u) ==
    IF DeleteNeedsFixup(u.colour, u.child)
    THEN RtlpRbTreeFixupDelete(u.heap, u.child).steps
    ELSE 0
DeleteFixupPasses(k) ==
    DeleteFixupPassesOf(DeleteUnlink(Heap(State), RtlpRbTreeFindNode(Heap(State), k)))

\* C20: on every tree reached by Inserts and Deletes from an empty tree,
\* the trees a Delete left without its fixup included, every Insert and
\* every Delete returns: the fixup loops end and no step dereferences an
\* absent node.
CallsRunToCompletion ==
    FromEmptyTree =>
        /\ ~crashed
        /\ \A k \in Keys : \A node \in ExAllocateFromLookasideListEx(State) :
               ~RtlRbTreeInsertNode(State, k, node).S.crashed
        /\ \A k \in Keys : ~RtlRbTreeDeleteNode(State, k).crashed

\* A tree a Delete left with unequal black heights, on which a Delete runs
\* passes of the deletion fixup loop and returns.
CallsRunToCompletionWitness ==
    /\ FromEmptyTree /\ ~crashed
    /\ ~BlackHeightUniform
    /\ \E k \in Members :
           DeleteFixupPasses(k) >= 1 /\ ~RtlRbTreeDeleteNode(State, k).crashed


\* ---- Enumerate and Teardown under the lock ---------------------------------

\* C16: RtlRbTreeEnumerate and RtlRbTreeDeleteTree make every access to the
\* shared state of the tree (the root pointer, the nodes' links, the active
\* flag, the pool) while holding the lock.
SelfLockingAccessesHoldLock == unlocked = {}

\* C16 as the code has it: the walk of the nodes, the frees and the
\* destruction of the pool happen with the lock held; the only accesses made
\* without it are Enumerate's test of the root for NULL and Teardown's write
\* of the active flag, both before the lock is taken.
AccessesOutsideLock ==
    unlocked \subseteq {<<"Enumerate", "root">>, <<"DeleteTree", "active">>}

\* Both routines have run: the two accesses outside the lock were made, and
\* the walk and the frees were made inside it.
AccessesOutsideLockWitness ==
    /\ unlocked = {<<"Enumerate", "root">>, <<"DeleteTree", "active">>}
    /\ Len(enum_thread.visited) >= 2
    /\ Len(teardown_thread.freed) >= 2
    /\ pool_deleted

\* C17: an Enumerate call that found the root NULL has returned without taking
\* the lock and without a callback; one that found a root took the lock once
\* before its first callback, makes its callbacks with the lock held, and
\* released it once after the last; a returned call does not hold the lock.
EnumerateLockDiscipline ==
    /\ enum_thread.acquired <= 1 /\ enum_thread.released <= enum_thread.acquired
    /\ enum_thread.pc = "walk" => lock = "Enumerate" /\ enum_thread.released = 0
    /\ enum_thread.visited # <<>> => enum_thread.acquired = 1
    /\ enum_thread.pc # "idle" /\ enum_thread.root_seen = NULL =>
          /\ enum_thread.pc = "returned"
          /\ enum_thread.acquired = 0
          /\ enum_thread.visited = <<>>
    /\ enum_thread.pc = "returned" /\ enum_thread.root_seen # NULL =>
          enum_thread.acquired = 1 /\ enum_thread.released = 1
    /\ enum_thread.pc = "returned" => lock # "Enumerate"
    /\ lock = "Enumerate" <=> enum_thread.pc = "walk"

\* Both cases have happened: a call on a tree of several nodes has called back
\* and returned.
EnumerateLockDisciplineWitness ==
    /\ ~crashed
    /\ enum_thread.pc = "returned"
    /\ Len(enum_thread.visited) >= 2
    /\ enum_thread.released = 1
    /\ lock = "none"

\* A call on the empty tree has returned.
EnumerateEmptyReturned ==
    /\ enum_thread.pc = "returned"
    /\ enum_thread.root_seen = NULL
    /\ enum_thread.acquired = 0

\* The blocks of a sequence, and whether it names a block twice.
Range(seq) == {seq[i] : i \in 1..Len(seq)}
NoDuplicates(seq) == Cardinality(Range(seq)) = Len(seq)

\* C18: Teardown marks the tree inactive before it takes the lock, frees with
\* the lock held the block of every node reachable from the root exactly once,
\* destroys the pool only when no block is outstanding, and releases the lock
\* only after the pool is destroyed.
TeardownOrder ==
    FromEmptyTree =>
        /\ teardown_thread.pc # "idle" => active = 0
        /\ teardown_thread.pc \in {"idle", "acquire"} =>
              teardown_thread.freed = <<>> /\ ~pool_deleted /\ lock # "DeleteTree"
        /\ teardown_thread.pc \in {"free", "release"} <=> lock = "DeleteTree"
        /\ NoDuplicates(teardown_thread.freed) /\ ~teardown_thread.freed_not_outstanding
        /\ Range(teardown_thread.freed) \subseteq LinkedFrom(State, Tree.root)
        /\ teardown_thread.pc = "free" => ~pool_deleted
        /\ pool_deleted =>
              /\ pool = {}
              /\ Range(teardown_thread.freed) = LinkedFrom(State, Tree.root)
        /\ teardown_thread.pc \in {"release", "returned"} => pool_deleted

\* Teardown of a tree of several nodes has returned.
TeardownOrderWitness ==
    /\ FromEmptyTree /\ ~crashed
    /\ teardown_thread.pc = "returned"
    /\ Len(teardown_thread.freed) >= 3
    /\ pool_deleted
    /\ lock = "none"

\* The part of C11 that Insert and Delete keep: until Teardown frees, the
\* outstanding blocks are the nodes reachable from the root.
OutstandingIsReachableBeforeTeardown ==
    FromEmptyTree /\ teardown_thread.freed = <<>> =>
        pool = LinkedFrom(State, Tree.root)

\* C11: no block is returned to the pool twice, no block is returned while its
\* node is reachable from the root, and after each Insert or Delete the outstanding
\* blocks are the reachable nodes.
BlockLifecycle ==
    FromEmptyTree /\ ~crashed =>
        /\ ~teardown_thread.freed_not_outstanding
        /\ ~teardown_thread.freed_linked
        /\ teardown_thread.freed = <<>> => pool = LinkedFrom(State, Tree.root)


\* ---- allocation order, teardown against enumeration, parent links ---------

\* C21: an Insert of a key that is present takes no block from the pool: with
\* the pool exhausted it still finds the key and returns the existing object.
DuplicateInsertNeedsNoBlock ==
    FromEmptyTree =>
    \A k \in Members :
        /\ RtlRbTreeInsertNode(State, k, NULL).path = "exists"
        /\ RtlRbTreeInsertNode(State, k, NULL).ret = stored[k]

\* C22: an Enumerate call interleaved with a Teardown call never follows the
\* links, or hands the callback the object, of a node whose block has been
\* returned to the pool.
EnumerateNeverReadsFreed == FromEmptyTree => ~enum_thread.freed_seen

\* The owning links and the parent back-references of the reachable nodes
\* agree.
ParentsConsistent ==
    /\ Tree.root # NULL => mem[Tree.root].parent = NULL
    /\ \A n \in ReachableFrom(Tree.root) :
          /\ mem[n].left # NULL => mem[mem[n].left].parent = n
          /\ mem[n].right # NULL => mem[mem[n].right].parent = n

\* C23: after every completed Insert or Delete the root has no parent, and
\* every present child of a reachable node has that node as its parent.
ParentLinksConsistent == FromEmptyTree /\ ~crashed => ParentsConsistent

\* Deletes and inserts have left a tree of several levels with a node that
\* has both children.
ParentLinksConsistentWitness ==
    /\ FromEmptyTree /\ ~crashed
    /\ AtLeast(Tree.deletion_count, 1)
    /\ AtLeast(Tree.node_count, 4)
    /\ \E n \in ReachableFrom(Tree.root) :
          /\ n # Tree.root
          /\ mem[n].left # NULL /\ mem[n].right # NULL
          /\ mem[mem[n].left].parent = n

====
